---- MODULE Spec2Model ----
(***************************************************************************)
(* Model of the university directory backend: the universities table       *)
(* (db/orms/university.py), the UniversityCRUD data-access class and the   *)
(* UniversityService listing pipeline (services/university_service.py).    *)
(*                                                                         *)
(* Strings are sequences of one-character strings, so that lower-casing,   *)
(* substring search and Python's code-point ordering are computed rather   *)
(* than assumed.  Python exceptions are call outcomes: a call returns      *)
(* [outcome |-> "ok", ...] or [outcome |-> "raise", error |-> <class>].    *)
(*                                                                         *)
(* The table is a sequence: its order is the order in which a query        *)
(* without ORDER BY returns the rows ("retrieval order").  Of a row the    *)
(* model keeps the columns the service reads: id, name, country_code,      *)
(* website, domain and the two timestamps.  Calls are issued one at a      *)
(* time; the result of the latest call stays in "ret" until the caller     *)
(* takes it (Complete).                                                    *)
(*                                                                         *)
(* Eight specifications share the variables: Spec (the service calls on a  *)
(* table filled by add_university), SpecPaging (pagination on candidate    *)
(* lists of every length), SpecCrud (the mutations of UniversityCRUD),     *)
(* SpecRoute (the HTTP routes of api/v1/universities/route.py and their    *)
(* dispatch, with a database that can be unavailable), SpecConc (the calls *)
(* of two concurrent callers, step by step), SpecSession (the sessions of  *)
(* CRUD calls, db_session and get_db), SpecAuth (AuthService and the       *)
(* protected routes of api/v1/auth_route.py) and SpecSync (the ingestion   *)
(* script scripts/sync_hipo_universities_orm.py).                          *)
(***************************************************************************)
EXTENDS Integers, Sequences, FiniteSets, TLC

(* ------------------------------ bounds -------------------------------- *)

\* Largest number of rows the universities table holds in the model.
MaxStore == 3

\* Largest candidate list and largest page number in the pagination
\* specification SpecPaging.
MaxTotal == 25
MaxPage == 4

\* The value of the clock at which SpecCrud stops issuing mutations.
MaxClock == 5

\* The longest list of universities the Hipo service returns for a country.
MaxItems == 2

\* The route's bound on per_page: Query(20, ge=1, le=100).
MaxPerPage == 100

\* The route's bound on the number of suggestions: Query(10, ge=1, le=50).
MaxLimit == 50

(* ------------------------------ strings ------------------------------- *)

\* Python's None.
None == <<"None">>

\* Code points of the characters used in the model (ord()).
Ord ==
  ("A" :> 65) @@ ("L" :> 76) @@ ("S" :> 83) @@ ("U" :> 85) @@ ("Z" :> 90) @@
  ("a" :> 97) @@ ("b" :> 98) @@ ("e" :> 101) @@ ("h" :> 104) @@ ("l" :> 108) @@
  ("p" :> 112) @@ ("t" :> 116) @@ ("z" :> 122)

\* str.lower() / SQL lower() on one character.
LowerChar(c) ==
  CASE c = "A" -> "a"
    [] c = "L" -> "l"
    [] c = "S" -> "s"
    [] c = "U" -> "u"
    [] c = "Z" -> "z"
    [] OTHER -> c

\* str.lower() / SQL lower() on a string.
Lower(s) == [i \in 1..Len(s) |-> LowerChar(s[i])]

\* Python's truth value of an Optional[str]: None and "" are falsy.
Truthy(s) == s # None /\ s # <<>>

\* A str as the sequence of its code points.
Code(s) == [i \in 1..Len(s) |-> Ord[s[i]]]

\* Lexicographic "a < b" on two sequences of integers.
SeqLess(a, b) ==
  \E k \in 1..Len(b) :
     /\ \A i \in 1..(k - 1) : i <= Len(a) /\ a[i] = b[i]
     /\ \/ k = Len(a) + 1
        \/ k <= Len(a) /\ a[k] < b[k]

\* Python's "a < b" on two str values: lexicographic by code point.
StrLess(a, b) == SeqLess(Code(a), Code(b))

\* SQL "hay LIKE '%' || needle || '%'" (ColumnOperators.contains).
Contains(hay, needle) ==
  \E off \in 0..(Len(hay) - Len(needle)) :
     \A i \in 1..Len(needle) : hay[off + i] = needle[i]

(* ------------------------------ the table ----------------------------- *)

\* University names, country codes and domains that occur in the model.
n_Alpha == <<"A", "l", "p", "h", "a">>
n_alpha == <<"a", "l", "p", "h", "a">>
n_beta  == <<"b", "e", "t", "a">>
n_Zeta  == <<"Z", "e", "t", "a">>
n_empty == <<>>
cc_AU   == <<"A", "U">>
cc_US   == <<"U", "S">>
d_beta  == <<"b", "e", "t", "a">>
d_alpha == <<"a", "l", "p", "h", "a">>
w_beta  == <<"b", "e", "t", "a">>

\* The university_data dictionaries that callers pass to the CRUD class.
Payloads ==
  { [name |-> n_beta,  country_code |-> cc_US, website |-> w_beta, domain |-> d_beta],
    [name |-> n_Alpha, country_code |-> cc_AU, website |-> None,   domain |-> None],
    [name |-> n_alpha, country_code |-> cc_US, website |-> None,   domain |-> None],
    [name |-> n_Zeta,  country_code |-> cc_AU, website |-> w_beta, domain |-> None],
    [name |-> n_empty, country_code |-> cc_US, website |-> None,   domain |-> None] }

VARIABLES
  store,         \* the universities table, in retrieval order
  nextId,        \* source of fresh primary keys (uuid.uuid4)
  now,           \* the database server's clock (func.now())
  call,          \* the most recent call: its operation and arguments
  universities,  \* the local list "universities" of that call, after sorting
  ret,           \* what that call returned or raised
  db,            \* "up", or "down": every statement sent to the database fails
  queries,       \* the UniversityCRUD methods that call invoked, in order
  response,      \* the HTTP response, when the call is a request to a route
  procs,         \* the calls that concurrent callers have in progress
  profiles,      \* the profiles table
  supabase,      \* the accounts held by the Supabase auth service
  sync           \* the run of the ingestion script sync_countries_orm

vars == <<store, nextId, now, call, universities, ret, db, queries, response,
          procs, profiles, supabase, sync>>

\* The state beside the universities table and its one-at-a-time callers.
others == <<procs, profiles, supabase, sync>>

\* The concurrent callers: request threads of the API, runs of the script.
Callers == {1, 2}

\* A caller, or the script, that has no call in progress.
Idle == [pc |-> "idle"]

\* class University: one row of the table.
University(id, data, t) ==
  [id |-> id, name |-> data.name, country_code |-> data.country_code,
   website |-> data.website, domain |-> data.domain,
   created_at |-> t, updated_at |-> t]

\* A table without the unique index on domain.
DomainFree_NoIndex(rows, skip, domain) == TRUE

\* domain = Column(String, unique=True, nullable=True): no row other than the
\* one at index skip holds this domain; NULLs are not compared.
DomainFree(rows, skip, domain) ==
  domain # None => \A i \in (1..Len(rows)) \ {skip} : rows[i].domain # domain

\* The columns' constraints: name NOT NULL, country_code NOT NULL, domain UNIQUE.
InsertAllowed(rows, data) ==
  /\ data.name # None
  /\ data.country_code # None
  /\ DomainFree(rows, 0, data.domain)

\* The same constraints for an UPDATE that turns the row at index i into row.
UpdateAllowed(rows, i, row) ==
  /\ row.name # None
  /\ row.country_code # None
  /\ DomainFree(rows, i, row.domain)

Raise(e) == [outcome |-> "raise", error |-> e]
Return(v) == [outcome |-> "ok", value |-> v]
NoCall == [op |-> "none"]

\* An Optional[object] (what Query.first() gives, what a CRUD method returns
\* for one row): a sequence of at most one element, the empty one for None.
Absent == <<>>
Some(v) == <<v>>
IsAbsent(o) == Len(o) = 0

\* "response" while the call is not an HTTP request.
NoResponse == [status |-> 0, body |-> None]

Init ==
  /\ store = <<>>
  /\ nextId = 1
  /\ now = 1
  /\ call = NoCall
  /\ universities = <<>>
  /\ ret = Return(None)
  /\ db = "up"
  /\ queries = <<>>
  /\ response = NoResponse
  /\ procs = [p \in Callers |-> Idle]
  /\ profiles = <<>>
  /\ supabase = {}
  /\ sync = Idle

\* The exception of a statement the database does not accept: the server
\* cannot be reached, or the commit violates a constraint.
DbError == IF db = "down" THEN "OperationalError" ELSE "IntegrityError"

\* UniversityCRUD.add_university
add_university(data) ==
  /\ call = NoCall
  /\ Len(store) < MaxStore
  /\ now < MaxClock
  /\ call' = [op |-> "add_university", data |-> data]
  /\ universities' = <<>>
  /\ queries' = <<"add_university">>
  /\ IF db = "up" /\ InsertAllowed(store, data)
       THEN /\ store' = Append(store, University(nextId, data, now))
            /\ nextId' = nextId + 1
            /\ now' = now + 1
            /\ ret' = Return(nextId)
       ELSE /\ UNCHANGED <<store, nextId, now>>
            /\ ret' = Raise(DbError)
  /\ UNCHANGED <<db, response, others>>

(* ----------------------- UniversityCRUD: mutations -------------------- *)

\* Timestamps come from one clock: func.now() of the database server and
\* datetime.utcnow() of the application are taken to agree, and the clock
\* advances with every committed statement.

\* The stored attributes of a University object that setattr can assign.
University_columns ==
  {"id", "name", "country_code", "website", "domain", "created_at", "updated_at"}

\* Index of the first row with this primary key, 0 when there is none
\* (session.query(University).filter(University.id == id).first()).
IndexOfId(rows, id) ==
  IF \E i \in 1..Len(rows) : rows[i].id = id
    THEN CHOOSE i \in 1..Len(rows) : rows[i].id = id
    ELSE 0

\* Index of the first row with this domain, 0 when there is none.
IndexOfDomain(rows, domain) ==
  IF \E i \in 1..Len(rows) : rows[i].domain = domain
    THEN CHOOSE i \in 1..Len(rows) :
           /\ rows[i].domain = domain
           /\ \A j \in 1..(i - 1) : rows[j].domain # domain
    ELSE 0

\* lower(name) = lower(:name) AND country_code = :country_code on one row.
SameNameAndCountry(u, name, country_code) ==
  /\ u.name # None
  /\ Lower(u.name) = Lower(name)
  /\ u.country_code = country_code

\* Index of the first row with this name (case-insensitively) and country.
IndexOfNameAndCountry(rows, name, country_code) ==
  IF \E i \in 1..Len(rows) : SameNameAndCountry(rows[i], name, country_code)
    THEN CHOOSE i \in 1..Len(rows) :
           /\ SameNameAndCountry(rows[i], name, country_code)
           /\ \A j \in 1..(i - 1) : ~SameNameAndCountry(rows[j], name, country_code)
    ELSE 0

\* "for key, value in data.items(): if hasattr(u, key): setattr(u, key, value)"
\* followed by "u.updated_at = datetime.utcnow()".
SetAttrs(u, data, t) ==
  [k \in DOMAIN u |->
     IF k = "updated_at" THEN t
     ELSE IF k \in DOMAIN data /\ k \in University_columns THEN data[k]
     ELSE u[k]]

\* The rows that satisfy lower(name) = lower(:name) AND country_code = :cc.
RowsOfNameAndCountry(rows, name, country_code) ==
  {i \in 1..Len(rows) : SameNameAndCountry(rows[i], name, country_code)}

\* The lookup of create_or_update_university: by domain when the data has a
\* domain, and only otherwise by name and country_code.  The result is the
\* set of rows that .first() can yield, {0} when no row matches: domain is
\* unique, but several rows can share a name and country, the query has no
\* ORDER BY, and the database is then free to return any of them first (an
\* UPDATE writes a new row version, which moves the row in a later scan).
ExistingIndices(rows, data) ==
  IF Truthy(data.domain)
    THEN {IndexOfDomain(rows, data.domain)}
    ELSE IF Truthy(data.name) /\ Truthy(data.country_code)
              /\ RowsOfNameAndCountry(rows, data.name, data.country_code) # {}
           THEN RowsOfNameAndCountry(rows, data.name, data.country_code)
           ELSE {0}

\* The table after create_or_update_university has committed: the row at
\* index i updated, or with i = 0 a new row added.
Upserted(rows, data, i, id, t) ==
  IF i # 0
    THEN [rows EXCEPT ![i] = SetAttrs(rows[i], data, t)]
    ELSE Append(rows, University(id, data, t))

\* The commit of create_or_update_university is accepted by the database.
UpsertAllowed(rows, data, i, t) ==
  IF i # 0
    THEN UpdateAllowed(rows, i, SetAttrs(rows[i], data, t))
    ELSE InsertAllowed(rows, data)

\* The update_data dictionaries passed to update_university.
UpdatePayloads ==
  { [domain |-> d_beta], [website |-> w_beta], [created_at |-> 0] }

\* The university_data dictionaries passed to create_or_update_university.
UpsertPayloads ==
  { [name |-> n_beta,  country_code |-> cc_US, website |-> None,   domain |-> d_beta],
    [name |-> n_Alpha, country_code |-> cc_US, website |-> None,   domain |-> d_alpha],
    [name |-> n_Alpha, country_code |-> cc_US, website |-> w_beta, domain |-> None] }

\* UniversityCRUD.update_university
update_university(university_id, update_data) ==
  LET i   == IndexOfId(store, university_id)
      row == SetAttrs(store[i], update_data, now)
  IN  /\ call = NoCall
      /\ now < MaxClock
      /\ call' = [op |-> "update_university", id |-> university_id, data |-> update_data]
      /\ universities' = <<>>
      /\ queries' = <<"update_university">>
      /\ IF db = "up" /\ i # 0 /\ UpdateAllowed(store, i, row)
           THEN /\ store' = [store EXCEPT ![i] = row]
                /\ now' = now + 1
                /\ ret' = Return(Some(row))
           ELSE /\ UNCHANGED <<store, now>>
                /\ ret' = IF db = "up" /\ i = 0 THEN Return(Absent) ELSE Raise(DbError)
      /\ UNCHANGED <<nextId, db, response, others>>

\* UniversityCRUD.delete_university
delete_university(university_id) ==
  LET i == IndexOfId(store, university_id)
  IN  /\ call = NoCall
      /\ now < MaxClock
      /\ call' = [op |-> "delete_university", id |-> university_id]
      /\ universities' = <<>>
      /\ queries' = <<"delete_university">>
      /\ IF db = "up" /\ i # 0
           THEN /\ store' = SubSeq(store, 1, i - 1) \o SubSeq(store, i + 1, Len(store))
                /\ now' = now + 1
                /\ ret' = Return(Some(university_id))
           ELSE /\ UNCHANGED <<store, now>>
                /\ ret' = IF db = "up" THEN Return(Absent) ELSE Raise(DbError)
      /\ UNCHANGED <<nextId, db, response, others>>

\* UniversityCRUD.create_or_update_university
create_or_update_university(data) ==
  \E i \in ExistingIndices(store, data) :
     /\ call = NoCall
     /\ now < MaxClock
     /\ i = 0 => Len(store) < MaxStore
     /\ call' = [op |-> "create_or_update_university", data |-> data]
     /\ universities' = <<>>
     /\ queries' = <<"create_or_update_university">>
     /\ IF db = "up" /\ UpsertAllowed(store, data, i, now)
          THEN /\ store' = Upserted(store, data, i, nextId, now)
               /\ nextId' = IF i = 0 THEN nextId + 1 ELSE nextId
               /\ now' = now + 1
               /\ ret' = Return(IF i = 0 THEN nextId ELSE store[i].id)
          ELSE /\ UNCHANGED <<store, nextId, now>>
               /\ ret' = Raise(DbError)
     /\ UNCHANGED <<db, response, others>>

(* --------------------------- UniversityCRUD --------------------------- *)

\* The attributes class UniversityCRUD defines; looking up any other name on
\* the class raises AttributeError.
UniversityCRUD_attrs ==
  { "db_manager", "fetch_university_ids", "add_university", "get_university_by_id",
    "get_university_by_domain", "get_university_by_name_and_country",
    "get_universities_by_ids", "get_universities_by_country",
    "get_universities_by_type", "get_all_universities", "update_university",
    "delete_university", "create_or_update_university", "search_universities" }

\* The parameters of "def search_universities(cls, search_term, limit=10)";
\* a call with any other keyword raises TypeError before the body runs.
search_universities_params == {"search_term", "limit"}

\* What a CRUD method returns for the rows its query selects: the rows, or
\* the SQLAlchemyError that "except SQLAlchemyError: ... raise" passes on
\* when the statement cannot be executed.
Query(rows) == IF db = "up" THEN Return(rows) ELSE Raise("OperationalError")

\* Query.limit(n): the first n rows.
Limit(s, n) == SubSeq(s, 1, IF n < Len(s) THEN n ELSE Len(s))

\* The Row that get_all_universities selects: the columns without the timestamps.
AllRow(u) ==
  [id |-> u.id, name |-> u.name, country_code |-> u.country_code,
   website |-> u.website, domain |-> u.domain]

\* UniversityCRUD.get_all_universities
get_all_universities(rows) ==
  LET Named(u) == u.name # None /\ u.name # <<>>
      kept == SelectSeq(rows, Named)
  IN  [i \in 1..Len(kept) |-> AllRow(kept[i])]

\* UniversityCRUD.get_universities_by_country
get_universities_by_country(rows, country_code) ==
  LET InCountry(u) == u.country_code = country_code
  IN  SelectSeq(rows, InCountry)

\* UniversityCRUD.search_universities
search_universities(rows, search_term, limit) ==
  LET Matches(u) == u.name # None /\ Contains(Lower(u.name), Lower(search_term))
  IN  Limit(SelectSeq(rows, Matches), limit)

\* A keyword call of search_universities: Python binds the keywords to the
\* parameters first and raises TypeError for a keyword the function lacks.
CallSearchUniversities(rows, kwargs) ==
  IF DOMAIN kwargs \subseteq search_universities_params
    THEN Query(search_universities(rows, kwargs.search_term, kwargs.limit))
    ELSE Raise("TypeError")

\* The text of a path parameter that is the canonical form of the UUID n.
UuidText(n) == <<"uuid", n>>

\* The text is the canonical form of some UUID.
IsUuidText(text) == Len(text) = 2 /\ text[1] = "uuid"

\* UniversityCRUD.get_university_by_id: University.id is a UUID column, and
\* the database refuses to compare it with a text that is no UUID.
get_university_by_id(rows, university_id) ==
  IF db = "down" THEN Raise("OperationalError")
  ELSE IF ~IsUuidText(university_id) THEN Raise("DataError")
  ELSE LET i == IndexOfId(rows, university_id[2])
       IN  Return(IF i = 0 THEN Absent ELSE Some(rows[i]))

\* UniversityCRUD.<name>: the attribute lookup of a method call.
HasMethod(name) == name \in UniversityCRUD_attrs

(* ----------------------------- list.sort ------------------------------ *)

\* Python's "a < b" on two sort keys.  A key is a str, held as its code
\* points, or a timestamp t, held as <<t>>.
KeyLess(a, b) == SeqLess(a, b)

\* One step of a stable insertion: p goes before the first element whose key
\* is greater, so after every element with an equal key.
RECURSIVE InsertSorted(_, _)
InsertSorted(ps, p) ==
  IF ps = <<>> THEN <<p>>
  ELSE IF KeyLess(p.key, ps[1].key) THEN <<p>> \o ps
       ELSE <<ps[1]>> \o InsertSorted(Tail(ps), p)

\* list.sort(key=...) on the decorated list: ascending and stable.
RECURSIVE SortPairs(_)
SortPairs(ps) ==
  IF ps = <<>> THEN <<>>
  ELSE InsertSorted(SortPairs(SubSeq(ps, 1, Len(ps) - 1)), ps[Len(ps)])

\* A sort that is not stable: equal keys come out in reverse input order.
ListSort_TiesReversed(s, keys) ==
  LET n == Len(s)
      ps == [i \in 1..n |-> [key |-> keys[n + 1 - i], item |-> s[n + 1 - i]]]
      sorted == SortPairs(ps)
  IN  [i \in 1..n |-> sorted[i].item]

\* list.sort(key=...): s ordered by keys[i], the key computed for s[i].
ListSort(s, keys) ==
  LET ps == [i \in 1..Len(s) |-> [key |-> keys[i], item |-> s[i]]]
      sorted == SortPairs(ps)
  IN  [i \in 1..Len(s) |-> sorted[i].item]

\* list.reverse()
Reverse(s) == [i \in 1..Len(s) |-> s[Len(s) + 1 - i]]

\* A slice that takes the element at index end as well.
Slice_InclusiveEnd(s, start, end) ==
  SubSeq(s, start + 1, IF end + 1 < Len(s) THEN end + 1 ELSE Len(s))

\* s[start:end] for 0 <= start: Python clamps the slice to the list.
Slice(s, start, end) ==
  SubSeq(s, start + 1, IF end < Len(s) THEN end ELSE Len(s))

(* --------------------------- UniversityService ------------------------ *)

\* Values the route passes for the query parameters.
Pages      == 1..MaxStore
PerPages   == 1..MaxStore
Searches   == {None, <<"A", "L">>}
Countries  == {None, cc_US}
SortBys    == {"name", "country_code", "created_at", "id"}
SortOrders == {"asc", "desc", "up"}

\* A name key that compares the raw name, without lower-casing it.
NameKey_Raw(x) == IF Truthy(x.name) THEN Code(x.name) ELSE <<>>

\* The key lambdas of get_universities_with_pagination.
NameKey(x) == IF Truthy(x.name) THEN Code(Lower(x.name)) ELSE <<>>
CountryKey(x) == Code(x.country_code)
CreatedAtKey(x) == <<x.created_at>>

\* A sorting step that falls back to the name order for an unknown sort_by.
ApplySorting_DefaultName(us, sort_by) ==
  CASE sort_by = "country_code" ->
         Return(ListSort(us, [i \in 1..Len(us) |-> CountryKey(us[i])]))
    [] sort_by = "created_at" ->
         IF \E i \in 1..Len(us) : "created_at" \notin DOMAIN us[i]
           THEN Raise("AttributeError")
           ELSE Return(ListSort(us, [i \in 1..Len(us) |-> CreatedAtKey(us[i])]))
    [] OTHER -> Return(ListSort(us, [i \in 1..Len(us) |-> NameKey(us[i])]))

\* "Apply sorting": the list after the sort_by branch, or the exception the
\* key lambda raises: the Row objects of get_all_universities carry no
\* created_at, so x.created_at raises AttributeError on the first of them.
\* (created_at is server-assigned in this model and never null, so the
\* "or ''" of that lambda is never taken.)
ApplySorting(us, sort_by) ==
  CASE sort_by = "name" ->
         Return(ListSort(us, [i \in 1..Len(us) |-> NameKey(us[i])]))
    [] sort_by = "country_code" ->
         Return(ListSort(us, [i \in 1..Len(us) |-> CountryKey(us[i])]))
    [] sort_by = "created_at" ->
         IF \E i \in 1..Len(us) : "created_at" \notin DOMAIN us[i]
           THEN Raise("AttributeError")
           ELSE Return(ListSort(us, [i \in 1..Len(us) |-> CreatedAtKey(us[i])]))
    [] OTHER -> Return(us)

\* Reversing for every sort_order other than asc.
ApplyOrder_UnlessAsc(us, sort_order) == IF sort_order # "asc" THEN Reverse(us) ELSE us

\* "if sort_order == desc: universities.reverse()"
ApplyOrder(us, sort_order) == IF sort_order = "desc" THEN Reverse(us) ELSE us

\* "Get universities based on filters"
FetchCandidates(rows, q) ==
  IF Truthy(q.search) \/ Truthy(q.country_code)
    THEN CallSearchUniversities(rows,
           [search_term  |-> IF Truthy(q.search) THEN q.search ELSE <<>>,
            country_code |-> q.country_code,
            limit        |-> q.per_page * 10])
    ELSE Query(get_all_universities(rows))

\* A page count that rounds down.
PageCount_Floor(total, per_page) == total \div per_page

\* "pages": (total + per_page - 1) // per_page
PageCount(total, per_page) == (total + per_page - 1) \div per_page

\* A pagination whose first page starts at index per_page (page taken 0-based).
Paginate_ZeroBased(us, page, per_page) ==
  LET total     == Len(us)
      start_idx == page * per_page
      end_idx   == start_idx + per_page
  IN  [items |-> Slice(us, start_idx, end_idx), total |-> total, page |-> page,
       per_page |-> per_page, pages |-> PageCount(total, per_page)]

\* "Apply pagination": the page descriptor built from the sorted list.
Paginate(us, page, per_page) ==
  LET total     == Len(us)
      start_idx == (page - 1) * per_page
      end_idx   == start_idx + per_page
  IN  [items |-> Slice(us, start_idx, end_idx), total |-> total, page |-> page,
       per_page |-> per_page, pages |-> PageCount(total, per_page)]

\* The local list "universities" of get_universities_with_pagination once
\* sorting and reversing are done, or the exception raised before that.
SortedCandidates(rows, q) ==
  LET fetched == FetchCandidates(rows, q)
      sorted  == ApplySorting(fetched.value, q.sort_by)
  IN  IF fetched.outcome = "raise" THEN fetched
      ELSE IF sorted.outcome = "raise" THEN sorted
      ELSE Return(ApplyOrder(sorted.value, q.sort_order))

\* What get_universities_with_pagination returns for the sorted list us, or
\* the exception that "except Exception: ... raise" logs and re-raises.
PageOrRaise(us, q) ==
  IF us.outcome = "raise" THEN us
  ELSE Return(Paginate(us.value, q.page, q.per_page))

\* The result of get_universities_with_pagination(q) on a table.
ListUniversities(rows, q) == PageOrRaise(SortedCandidates(rows, q), q)

\* The CRUD methods get_universities_with_pagination invokes: one, once.
ListQueries(q) ==
  <<IF Truthy(q.search) \/ Truthy(q.country_code)
      THEN "search_universities" ELSE "get_all_universities">>

\* A listing whose reversal is applied to the table itself, as if the list
\* being sorted were the stored rows and not a copy fetched by the query.
get_universities_with_pagination_OnTable(page, per_page, search, country_code, sort_by, sort_order) ==
  LET q  == [page |-> page, per_page |-> per_page, search |-> search,
             country_code |-> country_code, sort_by |-> sort_by,
             sort_order |-> sort_order]
      us == SortedCandidates(store, q)
  IN  /\ call = NoCall
      /\ call' = [op |-> "get_universities_with_pagination", q |-> q]
      /\ universities' = IF us.outcome = "ok" THEN us.value ELSE <<>>
      /\ ret' = PageOrRaise(us, q)
      /\ queries' = ListQueries(q)
      /\ store' = ApplyOrder(store, q.sort_order)
      /\ UNCHANGED <<nextId, now, db, response, others>>

\* UniversityService.get_universities_with_pagination
get_universities_with_pagination(page, per_page, search, country_code, sort_by, sort_order) ==
  LET q  == [page |-> page, per_page |-> per_page, search |-> search,
             country_code |-> country_code, sort_by |-> sort_by,
             sort_order |-> sort_order]
      us == SortedCandidates(store, q)
  IN  /\ call = NoCall
      /\ call' = [op |-> "get_universities_with_pagination", q |-> q]
      /\ universities' = IF us.outcome = "ok" THEN us.value ELSE <<>>
      /\ ret' = PageOrRaise(us, q)
      /\ queries' = ListQueries(q)
      /\ UNCHANGED <<store, nextId, now, db, response, others>>

\* The result of UniversityService.get_university_by_id on a table.
UniversityById(rows, university_id) == get_university_by_id(rows, university_id)

\* UniversityService.get_university_by_id
get_university_by_id_service(university_id) ==
  /\ call = NoCall
  /\ call' = [op |-> "get_university_by_id", id |-> university_id]
  /\ universities' = <<>>
  /\ ret' = UniversityById(store, university_id)
  /\ queries' = <<"get_university_by_id">>
  /\ UNCHANGED <<store, nextId, now, db, response, others>>

\* The result of UniversityService.get_universities_by_country on a table.
UniversitiesByCountry(rows, country_code, search) ==
  IF Truthy(search)
    THEN CallSearchUniversities(rows,
           [search_term |-> search, country_code |-> country_code, limit |-> 1000])
    ELSE Query(get_universities_by_country(rows, country_code))

\* The CRUD methods get_universities_by_country invokes.
ByCountryQueries(search) ==
  <<IF Truthy(search) THEN "search_universities" ELSE "get_universities_by_country">>

\* UniversityService.get_universities_by_country
get_universities_by_country_service(country_code, search) ==
  LET res == UniversitiesByCountry(store, country_code, search)
  IN  /\ call = NoCall
      /\ call' = [op |-> "get_universities_by_country",
                  country_code |-> country_code, search |-> search]
      /\ universities' = IF res.outcome = "ok" THEN res.value ELSE <<>>
      /\ ret' = res
      /\ queries' = ByCountryQueries(search)
      /\ UNCHANGED <<store, nextId, now, db, response, others>>

\* The dictionary get_search_suggestions builds for one university.
Suggestion(u) ==
  [id |-> u.id, name |-> u.name, country_code |-> u.country_code, domain |-> u.domain]

\* The result of UniversityService.get_search_suggestions on a table.
SearchSuggestions(rows, query, limit, country_code) ==
  LET res == CallSearchUniversities(rows,
               [search_term |-> query, country_code |-> country_code, limit |-> limit])
  IN  IF res.outcome = "raise" THEN res
      ELSE Return([i \in 1..Len(res.value) |-> Suggestion(res.value[i])])

\* UniversityService.get_search_suggestions
get_search_suggestions(query, limit, country_code) ==
  /\ call = NoCall
  /\ call' = [op |-> "get_search_suggestions", query |-> query, limit |-> limit,
              country_code |-> country_code]
  /\ universities' = <<>>
  /\ ret' = SearchSuggestions(store, query, limit, country_code)
  /\ queries' = <<"search_universities">>
  /\ UNCHANGED <<store, nextId, now, db, response, others>>

\* The result of UniversityService.get_countries: the method it calls is
\* not an attribute of UniversityCRUD.
CountriesWithUniversities ==
  IF ~HasMethod("get_countries_with_universities")
    THEN Raise("AttributeError")
    ELSE Query({store[i].country_code : i \in 1..Len(store)})

\* UniversityService.get_countries
get_countries ==
  /\ call = NoCall
  /\ call' = [op |-> "get_countries"]
  /\ universities' = <<>>
  /\ ret' = CountriesWithUniversities
  /\ queries' = <<>>
  /\ UNCHANGED <<store, nextId, now, db, response, others>>

\* The result of UniversityService.get_statistics on a table:
\* get_all_universities is called first, then the attribute
\* get_countries_with_universities is looked up on UniversityCRUD.
Statistics(rows) ==
  LET fetched == Query(get_all_universities(rows))
      all_universities == fetched.value
      HasWebsite(u) == Truthy(u.website)
      HasDomain(u) == Truthy(u.domain)
  IN  IF fetched.outcome = "raise" THEN fetched
      ELSE IF ~HasMethod("get_countries_with_universities")
        THEN Raise("AttributeError")
        ELSE Return([total_universities |-> Len(all_universities),
                     total_countries |->
                       Cardinality({all_universities[i].country_code :
                                      i \in 1..Len(all_universities)}),
                     with_website |-> Len(SelectSeq(all_universities, HasWebsite)),
                     with_domain |-> Len(SelectSeq(all_universities, HasDomain))])

\* UniversityService.get_statistics
get_statistics ==
  /\ call = NoCall
  /\ call' = [op |-> "get_statistics"]
  /\ universities' = <<>>
  /\ ret' = Statistics(store)
  /\ queries' = <<"get_all_universities">>
  /\ UNCHANGED <<store, nextId, now, db, response, others>>

\* The caller takes the result or the exception; the next call can start.
\* Calls are issued one at a time: the service is stateless between calls.
Complete ==
  /\ call # NoCall
  /\ call' = NoCall
  /\ universities' = <<>>
  /\ ret' = Return(None)
  /\ queries' = <<>>
  /\ response' = NoResponse
  /\ UNCHANGED <<store, nextId, now, db, others>>

Next ==
  \/ \E data \in Payloads : add_university(data)
  \/ \E p \in Pages, pp \in PerPages, s \in Searches, cc \in Countries,
        sb \in SortBys, so \in SortOrders :
       get_universities_with_pagination(p, pp, s, cc, sb, so)
  \/ \E cc \in {cc_AU, cc_US}, s \in Searches \cup {<<>>} :
       get_universities_by_country_service(cc, s)
  \/ \E s \in Searches \ {None}, n \in 1..2, cc \in Countries :
       get_search_suggestions(s, n, cc)
  \/ \E id \in {UuidText(n) : n \in 1..(MaxStore + 1)} \cup {<<"countries">>} :
       get_university_by_id_service(id)
  \/ get_countries
  \/ get_statistics
  \/ Complete

Spec == Init /\ [][Next]_vars

(* ---------------------- pagination on its own ------------------------- *)

\* "Apply pagination" is a function of the sorted list, page and per_page.
\* SpecPaging applies it to candidate lists of every length up to MaxTotal
\* and to every per_page the route lets through.

\* A candidate of which only the identity matters.
Candidate(i) == [id |-> i]

InitPaging ==
  /\ store = <<>>
  /\ nextId = 1
  /\ now = 1
  /\ call = NoCall
  /\ universities \in {[i \in 1..n |-> Candidate(i)] : n \in 0..MaxTotal}
  /\ ret = Return(None)
  /\ db = "up"
  /\ queries = <<>>
  /\ response = NoResponse
  /\ procs = [p \in Callers |-> Idle]
  /\ profiles = <<>>
  /\ supabase = {}
  /\ sync = Idle

\* Lines "Apply pagination" .. "return" of get_universities_with_pagination.
ApplyPagination(page, per_page) ==
  /\ call = NoCall
  /\ call' = [op |-> "apply_pagination", page |-> page, per_page |-> per_page]
  /\ ret' = Return(Paginate(universities, page, per_page))
  /\ UNCHANGED <<store, nextId, now, universities, db, queries, response, others>>

\* The caller takes the page; the same list can be paged again.
CompletePaging ==
  /\ call # NoCall
  /\ call' = NoCall
  /\ ret' = Return(None)
  /\ UNCHANGED <<store, nextId, now, universities, db, queries, response, others>>

NextPaging ==
  \/ \E p \in 1..MaxPage, pp \in 1..MaxPerPage : ApplyPagination(p, pp)
  \/ CompletePaging

SpecPaging == InitPaging /\ [][NextPaging]_vars

(* ------------------- the mutations of UniversityCRUD ------------------ *)

\* SpecCrud issues add, upsert, update and delete calls in every order, as
\* the ingestion script and maintenance code may, until the clock reaches
\* MaxClock.

\* The university_data dictionaries passed to add_university in SpecCrud
\* and SpecRoute.
CrudAdds == {d \in Payloads : d.name \in {n_beta, n_alpha, n_Zeta}}

\* The primary keys that update and delete calls name.
CrudIds == 1..(MaxStore - 1)

NextCrud ==
  \/ \E data \in CrudAdds : add_university(data)
  \/ \E data \in UpsertPayloads : create_or_update_university(data)
  \/ \E id \in CrudIds, data \in UpdatePayloads : update_university(id, data)
  \/ \E id \in CrudIds : delete_university(id)
  \/ Complete

SpecCrud == Init /\ [][NextCrud]_vars

(* --------------------------- the HTTP routes -------------------------- *)

\* SpecRoute sends requests to the handlers of api/v1/universities/route.py
\* on a table filled by add_university, while the database goes down and
\* comes back between requests.  FastAPI validates the query parameters
\* against their Query(...) declarations before it calls the handler and
\* answers 422 itself when one is out of range.  The conversion of a
\* handler's return value to the response model is not modelled: the body
\* of a 200 response is the value the service returned.

Http(status, body) == [status |-> status, body |-> body]

\* "ret" of a request that FastAPI rejected: no service method was called.
NotCalled == [outcome |-> "not_called"]

\* page: int = Query(1, ge=1); per_page: int = Query(20, ge=1, le=100),
\* without the upper bound.
ListParamsValid_NoUpperBound(page, per_page) == page >= 1 /\ per_page >= 1

\* page: int = Query(1, ge=1); per_page: int = Query(20, ge=1, le=100)
ListParamsValid(page, per_page) ==
  page >= 1 /\ per_page >= 1 /\ per_page <= MaxPerPage

\* q: str = Query(..., min_length=1); limit: int = Query(10, ge=1, le=50)
SuggestionParamsValid(q, limit) ==
  Len(q) >= 1 /\ limit >= 1 /\ limit <= MaxLimit

\* A handler that returns the partial value of a failed service call.
Answer_Partial(res) == Http(200, IF res.outcome = "raise" THEN <<>> ELSE res.value)

\* "try: return <service call> except Exception: raise HTTPException(500)"
Answer(res) ==
  IF res.outcome = "raise" THEN Http(500, None) ELSE Http(200, res.value)

\* get_university: 404 for a falsy result, HTTPException passed on, any
\* other exception turned into 500.
AnswerOne(res) ==
  IF res.outcome = "raise" THEN Http(500, None)
  ELSE IF IsAbsent(res.value) THEN Http(404, None)
  ELSE Http(200, res.value[1])

\* Values of the query and path parameters that requests carry.
RoutePages    == {0, 1, 2}
RoutePerPages == {0, 1, MaxPerPage, MaxPerPage + 1}
RouteLimits   == {0, 1, MaxLimit, MaxLimit + 1}
RouteQs       == {<<>>, <<"A", "L">>}
RouteSortBys  == {"name", "id"}
RouteOrders   == {"asc", "down"}
RouteIds      == {UuidText(n) : n \in 1..(MaxStore + 1)} \cup {<<"countries">>}

\* The database becomes unreachable, or reachable again, between requests
\* (in SpecSession and SpecSync: between the statements of a call or run).
Outage ==
  /\ call = NoCall
  /\ db = "up"
  /\ db' = "down"
  /\ UNCHANGED <<store, nextId, now, call, universities, ret, queries, response, others>>

Recover ==
  /\ call = NoCall
  /\ db = "down"
  /\ db' = "up"
  /\ UNCHANGED <<store, nextId, now, call, universities, ret, queries, response, others>>

\* GET /universities/ : get_universities
route_get_universities(page, per_page, search, country_code, sort_by, sort_order) ==
  LET q   == [page |-> page, per_page |-> per_page, search |-> search,
              country_code |-> country_code, sort_by |-> sort_by,
              sort_order |-> sort_order]
      us  == SortedCandidates(store, q)
      res == PageOrRaise(us, q)
  IN  /\ call = NoCall
      /\ call' = [op |-> "route.get_universities", q |-> q]
      /\ IF ListParamsValid(page, per_page)
           THEN /\ universities' = IF us.outcome = "ok" THEN us.value ELSE <<>>
                /\ ret' = res
                /\ queries' = ListQueries(q)
                /\ response' = Answer(res)
           ELSE /\ universities' = <<>>
                /\ ret' = NotCalled
                /\ queries' = <<>>
                /\ response' = Http(422, None)
      /\ UNCHANGED <<store, nextId, now, db, others>>

\* GET /universities/{university_id} : get_university
route_get_university(university_id) ==
  LET res == UniversityById(store, university_id)
  IN  /\ call = NoCall
      /\ call' = [op |-> "route.get_university", id |-> university_id]
      /\ universities' = <<>>
      /\ ret' = res
      /\ queries' = <<"get_university_by_id">>
      /\ response' = AnswerOne(res)
      /\ UNCHANGED <<store, nextId, now, db, others>>

\* GET /universities/search/suggestions : get_search_suggestions
route_get_search_suggestions(q, limit, country_code) ==
  LET res == SearchSuggestions(store, q, limit, country_code)
  IN  /\ call = NoCall
      /\ call' = [op |-> "route.get_search_suggestions", query |-> q, limit |-> limit,
                  country_code |-> country_code]
      /\ universities' = <<>>
      /\ IF SuggestionParamsValid(q, limit)
           THEN /\ ret' = res
                /\ queries' = <<"search_universities">>
                /\ response' = Answer(res)
           ELSE /\ ret' = NotCalled
                /\ queries' = <<>>
                /\ response' = Http(422, None)
      /\ UNCHANGED <<store, nextId, now, db, others>>

\* The handler get_countries of route.py
route_get_countries ==
  /\ call = NoCall
  /\ call' = [op |-> "route.get_countries"]
  /\ universities' = <<>>
  /\ ret' = CountriesWithUniversities
  /\ queries' = <<>>
  /\ response' = Answer(CountriesWithUniversities)
  /\ UNCHANGED <<store, nextId, now, db, others>>

\* The handler get_statistics of route.py
route_get_statistics ==
  /\ call = NoCall
  /\ call' = [op |-> "route.get_statistics"]
  /\ universities' = <<>>
  /\ ret' = Statistics(store)
  /\ queries' = <<"get_all_universities">>
  /\ response' = Answer(Statistics(store))
  /\ UNCHANGED <<store, nextId, now, db, others>>

\* GET /universities/country/{country_code} : get_universities_by_country
route_get_universities_by_country(country_code, search) ==
  LET res == UniversitiesByCountry(store, country_code, search)
  IN  /\ call = NoCall
      /\ call' = [op |-> "route.get_universities_by_country",
                  country_code |-> country_code, search |-> search]
      /\ universities' = IF res.outcome = "ok" THEN res.value ELSE <<>>
      /\ ret' = res
      /\ queries' = ByCountryQueries(search)
      /\ response' = Answer(res)
      /\ UNCHANGED <<store, nextId, now, db, others>>

(* --- dispatch: APIRouter matches the routes in declaration order ------ *)

\* A path below the prefix /universities, as the sequence of its segments;
\* a segment is a text such as <<"countries">> or UuidText(1).
PathParam == <<"{}">>

\* The GET routes of route.py, in the order of their declaration.
Routes ==
  << [handler |-> "get_universities",            pattern |-> <<>>],
     [handler |-> "get_university",              pattern |-> <<PathParam>>],
     [handler |-> "get_search_suggestions",      pattern |-> <<(<<"search">>), (<<"suggestions">>)>>],
     [handler |-> "get_countries",               pattern |-> <<(<<"countries">>)>>],
     [handler |-> "get_statistics",              pattern |-> <<(<<"statistics">>)>>],
     [handler |-> "get_universities_by_country", pattern |-> <<(<<"country">>), PathParam>>] >>

\* A route's path matches a request path: as many segments, each literal
\* segment equal; a path parameter of type str takes any one segment.
Match(pattern, path) ==
  /\ Len(pattern) = Len(path)
  /\ \A i \in 1..Len(pattern) : pattern[i] = PathParam \/ pattern[i] = path[i]

\* The handler of the first declared route that matches, "none" without one.
Dispatch(path) ==
  LET hits == {i \in 1..Len(Routes) : Match(Routes[i].pattern, path)}
  IN  IF hits = {} THEN "none"
      ELSE Routes[CHOOSE i \in hits : \A j \in hits : i <= j].handler

\* The query parameters of a request that sends none: the Query defaults.
DefaultListQuery ==
  [page |-> 1, per_page |-> 20, search |-> None, country_code |-> None,
   sort_by |-> "name", sort_order |-> "asc"]

\* What handler h does with a request for path that carries no query string.
HandlerResult(h, path) ==
  CASE h = "get_universities" ->
         LET us  == SortedCandidates(store, DefaultListQuery)
             res == PageOrRaise(us, DefaultListQuery)
         IN  [ret |-> res, queries |-> ListQueries(DefaultListQuery),
              response |-> Answer(res)]
    [] h = "get_university" ->
         LET res == UniversityById(store, path[1])
         IN  [ret |-> res, queries |-> <<"get_university_by_id">>,
              response |-> AnswerOne(res)]
    [] h = "get_search_suggestions" ->
         [ret |-> NotCalled, queries |-> <<>>, response |-> Http(422, None)]
    [] h = "get_countries" ->
         [ret |-> CountriesWithUniversities, queries |-> <<>>,
          response |-> Answer(CountriesWithUniversities)]
    [] h = "get_statistics" ->
         [ret |-> Statistics(store), queries |-> <<"get_all_universities">>,
          response |-> Answer(Statistics(store))]
    [] h = "get_universities_by_country" ->
         LET res == UniversitiesByCountry(store, path[2], None)
         IN  [ret |-> res, queries |-> ByCountryQueries(None),
              response |-> Answer(res)]
    [] OTHER ->
         [ret |-> NotCalled, queries |-> <<>>, response |-> Http(404, None)]

\* The paths that requests carry.
RoutePaths ==
  { <<>>, <<(<<"countries">>)>>, <<(<<"statistics">>)>>, <<UuidText(1)>>,
    <<(<<"search">>), (<<"suggestions">>)>>, <<(<<"country">>), cc_US>>,
    <<(<<"countries">>), (<<"statistics">>)>> }

\* GET /universities/<path> without a query string, served by the router.
http_get(path) ==
  LET h == Dispatch(path)
      r == HandlerResult(h, path)
  IN  /\ call = NoCall
      /\ call' = [op |-> "GET", path |-> path, handler |-> h]
      /\ universities' = <<>>
      /\ ret' = r.ret
      /\ queries' = r.queries
      /\ response' = r.response
      /\ UNCHANGED <<store, nextId, now, db, others>>

NextRoute ==
  \/ \E data \in CrudAdds : add_university(data)
  \/ Outage
  \/ Recover
  \/ \E p \in RoutePages, pp \in RoutePerPages, s \in Searches, sb \in RouteSortBys,
        so \in RouteOrders :
       route_get_universities(p, pp, s, None, sb, so)
  \/ \E id \in RouteIds : route_get_university(id)
  \/ \E q \in RouteQs, n \in RouteLimits : route_get_search_suggestions(q, n, None)
  \/ route_get_countries
  \/ route_get_statistics
  \/ \E cc \in {cc_AU, cc_US}, s \in Searches : route_get_universities_by_country(cc, s)
  \/ \E path \in RoutePaths : http_get(path)
  \/ Complete

SpecRoute == Init /\ [][NextRoute]_vars

(* -------------------------- concurrent callers ------------------------ *)

\* SpecConc runs the calls of two callers at once.  Every CRUD method opens
\* a session of its own, so a call is a sequence of steps between which the
\* other caller's steps can fall: an upsert looks the record up and then
\* commits, get_statistics makes one CRUD call and then the next, a listing
\* fetches its candidates and then works on its local list.

\* The university_data that concurrent upserts carry: one without a domain,
\* one with a domain and another name.
ConcUpserts == {d \in UpsertPayloads : d.domain \in {None, d_beta}}

\* The sort orders that concurrent listings ask for.
ConcOrders == {"asc", "desc"}

\* A list that every call of the service shares, as a module-level list would be.
SetList_Shared(ps, p, us) ==
  [r \in DOMAIN ps |->
     IF "universities" \in DOMAIN ps[r]
       THEN [ps[r] EXCEPT !.universities = us] ELSE ps[r]]

\* "universities = ...": the list is a local variable of caller p's call.
SetList(ps, p, us) == [ps EXCEPT ![p].universities = us]

\* A call of caller p that has returned or raised.
Done(op, args, res) == [pc |-> "done", op |-> op, args |-> args, ret |-> res]

\* create_or_update_university, up to "existing = ... .first()"
upsert_lookup(p, data) ==
  \E i \in ExistingIndices(store, data) :
     /\ procs[p] = Idle
     /\ procs' = [procs EXCEPT ![p] =
                    IF db = "up"
                      THEN [pc |-> "found", op |-> "create_or_update_university",
                            data |-> data,
                            existing |-> IF i = 0 THEN 0 ELSE store[i].id]
                      ELSE Done("create_or_update_university", data, Raise(DbError))]
     /\ UNCHANGED <<store, nextId, now, call, universities, ret, db, queries,
                    response, profiles, supabase, sync>>

\* create_or_update_university, from "if existing:" to the return: the
\* record found by the lookup is updated, or a new one is inserted.
upsert_commit(p) ==
  LET c == procs[p]
      i == IndexOfId(store, c.existing)
  IN  /\ c.pc = "found"
      /\ now < MaxClock
      /\ i = 0 => Len(store) < MaxStore
      /\ IF db = "up" /\ UpsertAllowed(store, c.data, i, now)
           THEN /\ store' = Upserted(store, c.data, i, nextId, now)
                /\ nextId' = IF i = 0 THEN nextId + 1 ELSE nextId
                /\ now' = now + 1
                /\ procs' = [procs EXCEPT ![p] =
                               Done(c.op, c.data, Return(IF i = 0 THEN nextId ELSE c.existing))]
           ELSE /\ UNCHANGED <<store, nextId, now>>
                /\ procs' = [procs EXCEPT ![p] = Done(c.op, c.data, Raise(DbError))]
      /\ UNCHANGED <<call, universities, ret, db, queries, response, profiles,
                     supabase, sync>>

\* get_statistics: "all_universities = UniversityCRUD.get_all_universities()"
stats_fetch(p) ==
  LET fetched == Query(get_all_universities(store))
  IN  /\ procs[p] = Idle
      /\ procs' = [procs EXCEPT ![p] =
                     IF fetched.outcome = "raise"
                       THEN Done("get_statistics", <<>>, fetched)
                       ELSE [pc |-> "fetched_all", op |-> "get_statistics",
                             all_universities |-> fetched.value]]
      /\ UNCHANGED <<store, nextId, now, call, universities, ret, db, queries,
                     response, profiles, supabase, sync>>

\* get_statistics: "countries = UniversityCRUD.get_countries_with_universities()"
\* and the counts: a second CRUD call, which would read the table as it is
\* by then.
stats_countries(p) ==
  LET c == procs[p]
      HasWebsite(u) == Truthy(u.website)
      HasDomain(u) == Truthy(u.domain)
  IN  /\ c.pc = "fetched_all"
      /\ procs' = [procs EXCEPT ![p] =
                     Done(c.op, <<>>,
                          IF ~HasMethod("get_countries_with_universities")
                            THEN Raise("AttributeError")
                            ELSE Return(
                              [total_universities |-> Len(c.all_universities),
                               total_countries |->
                                 Cardinality({store[i].country_code : i \in 1..Len(store)}),
                               with_website |-> Len(SelectSeq(c.all_universities, HasWebsite)),
                               with_domain |-> Len(SelectSeq(c.all_universities, HasDomain))]))]
      /\ UNCHANGED <<store, nextId, now, call, universities, ret, db, queries,
                     response, profiles, supabase, sync>>

\* get_universities_with_pagination, up to the end of "Get universities":
\* "seen" records the table the query read.
list_fetch(p, sort_by, sort_order) ==
  LET q == [page |-> 1, per_page |-> 2, search |-> None, country_code |-> None,
            sort_by |-> sort_by, sort_order |-> sort_order]
      fetched == FetchCandidates(store, q)
  IN  /\ procs[p] = Idle
      /\ procs' =
           IF fetched.outcome = "raise"
             THEN [procs EXCEPT ![p] =
                     Done("get_universities_with_pagination", <<q, store>>, fetched)]
             ELSE SetList([procs EXCEPT ![p] =
                             [pc |-> "fetched", op |-> "get_universities_with_pagination",
                              q |-> q, seen |-> store, universities |-> <<>>]],
                          p, fetched.value)
      /\ UNCHANGED <<store, nextId, now, call, universities, ret, db, queries,
                     response, profiles, supabase, sync>>

\* get_universities_with_pagination, "Apply sorting": sort, then reverse.
list_sort(p) ==
  LET c == procs[p]
      sorted == ApplySorting(c.universities, c.q.sort_by)
  IN  /\ c.pc = "fetched"
      /\ procs' =
           IF sorted.outcome = "raise"
             THEN [procs EXCEPT ![p] = Done(c.op, <<c.q, c.seen>>, sorted)]
             ELSE SetList([procs EXCEPT ![p].pc = "sorted"], p,
                          ApplyOrder(sorted.value, c.q.sort_order))
      /\ UNCHANGED <<store, nextId, now, call, universities, ret, db, queries,
                     response, profiles, supabase, sync>>

\* get_universities_with_pagination, "Apply pagination" and the return.
list_page(p) ==
  LET c == procs[p]
  IN  /\ c.pc = "sorted"
      /\ procs' = [procs EXCEPT ![p] =
                     Done(c.op, <<c.q, c.seen>>,
                          Return(Paginate(c.universities, c.q.page, c.q.per_page)))]
      /\ UNCHANGED <<store, nextId, now, call, universities, ret, db, queries,
                     response, profiles, supabase, sync>>

\* Caller p takes the result or the exception and can call again.
conc_return(p) ==
  /\ procs[p].pc = "done"
  /\ procs' = [procs EXCEPT ![p] = Idle]
  /\ UNCHANGED <<store, nextId, now, call, universities, ret, db, queries,
                 response, profiles, supabase, sync>>

NextConc ==
  \/ \E p \in Callers, data \in ConcUpserts : upsert_lookup(p, data)
  \/ \E p \in Callers : upsert_commit(p)
  \/ \E p \in Callers : stats_fetch(p)
  \/ \E p \in Callers : stats_countries(p)
  \/ \E p \in Callers, so \in ConcOrders : list_fetch(p, "name", so)
  \/ \E p \in Callers : list_sort(p)
  \/ \E p \in Callers : list_page(p)
  \/ \E p \in Callers : conc_return(p)

SpecConc == Init /\ [][NextConc]_vars

(* ------------------------------ sessions ------------------------------ *)

\* SpecSession follows the session of each call: a CRUD method takes one
\* with "with cls.db_manager.get_session() as session", db_session and
\* get_db take one and hand it to the caller's block.  A session is open
\* from SessionLocal() to close(); its transaction begins with the first
\* statement and ends with commit(), rollback() or close().

\* DatabaseConnectionManager.get_session: SessionLocal()
NewSession == [state |-> "open", tx |-> "none"]

\* The first statement of a session begins its transaction.
Begin(s) == [s EXCEPT !.tx = "active"]

\* Session.commit() that the database accepts.
Commit(s) == [s EXCEPT !.tx = "committed"]

\* Session.rollback(): ends the transaction in progress, if there is one.
Rollback(s) == IF s.tx = "active" THEN [s EXCEPT !.tx = "rolled_back"] ELSE s

\* A close() that leaves the session as it is.
Close_Leak(s) == s

\* Session.close(), also the exit of "with ... as session": rolls back the
\* transaction in progress and releases the connection.
Close(s) == [state |-> "closed", tx |-> Rollback(s).tx]

\* The university_data of the add_university calls of SpecSession.
SessionAdds == {d \in Payloads : d.domain = d_beta}

\* add_university: "with cls.db_manager.get_session() as session:"
crud_get_session(p, data) ==
  /\ procs[p] = Idle
  /\ procs' = [procs EXCEPT ![p] =
                 [pc |-> "with", op |-> "add_university", data |-> data,
                  session |-> NewSession, exc |-> "none"]]
  /\ UNCHANGED <<store, nextId, now, call, universities, ret, db, queries,
                 response, profiles, supabase, sync>>

\* add_university: "session.add(new_university); session.commit()"
crud_commit(p) ==
  LET c == procs[p]
  IN  /\ c.pc = "with"
      /\ c.op = "add_university"
      /\ Len(store) < MaxStore
      /\ now < MaxClock
      /\ IF db = "up" /\ InsertAllowed(store, c.data)
           THEN /\ store' = Append(store, University(nextId, c.data, now))
                /\ nextId' = nextId + 1
                /\ now' = now + 1
                /\ procs' = [procs EXCEPT ![p].pc = "exit",
                                          ![p].session = Commit(Begin(c.session))]
           ELSE /\ UNCHANGED <<store, nextId, now>>
                /\ procs' = [procs EXCEPT ![p].pc = "exit",
                                          ![p].session = Begin(c.session),
                                          ![p].exc = DbError]
      /\ UNCHANGED <<call, universities, ret, db, queries, response, profiles,
                     supabase, sync>>

\* add_university: the exit of the with block, by return or by exception.
crud_exit(p) ==
  LET c == procs[p]
  IN  /\ c.pc = "exit"
      /\ procs' = [procs EXCEPT ![p] =
                     [pc |-> IF c.exc = "none" THEN "done" ELSE "except",
                      op |-> c.op, session |-> Close(c.session), exc |-> c.exc,
                      ret |-> IF c.exc = "none" THEN Return(c.data.name) ELSE Raise(c.exc)]]
      /\ UNCHANGED <<store, nextId, now, call, universities, ret, db, queries,
                     response, profiles, supabase, sync>>

\* add_university: "except SQLAlchemyError: session.rollback(); ...; raise"
crud_except(p) ==
  LET c == procs[p]
  IN  /\ c.pc = "except"
      /\ c.op = "add_university"
      /\ procs' = [procs EXCEPT ![p].pc = "done",
                                ![p].session = Rollback(c.session)]
      /\ UNCHANGED <<store, nextId, now, call, universities, ret, db, queries,
                     response, profiles, supabase, sync>>

\* db_session / get_db: "session = db_manager.get_session()" and the yield.
block_get_session(p, op) ==
  /\ procs[p] = Idle
  /\ procs' = [procs EXCEPT ![p] =
                 [pc |-> "yield", op |-> op, session |-> NewSession, exc |-> "none"]]
  /\ UNCHANGED <<store, nextId, now, call, universities, ret, db, queries,
                 response, profiles, supabase, sync>>

\* The caller's block, which uses the session and ends or raises.
block_body(p, raises) ==
  LET c == procs[p]
  IN  /\ c.pc = "yield"
      /\ procs' = [procs EXCEPT ![p].session = Begin(c.session),
                                ![p].exc = IF raises THEN "Exception" ELSE "none",
                                ![p].pc = IF c.op = "get_db" THEN "finally"
                                          ELSE IF raises THEN "except" ELSE "commit"]
      /\ UNCHANGED <<store, nextId, now, call, universities, ret, db, queries,
                     response, profiles, supabase, sync>>

\* db_session: "session.commit()" after the block
db_session_commit(p) ==
  LET c == procs[p]
  IN  /\ c.pc = "commit"
      /\ procs' = IF db = "up"
                    THEN [procs EXCEPT ![p].session = Commit(c.session),
                                       ![p].pc = "finally"]
                    ELSE [procs EXCEPT ![p].exc = DbError, ![p].pc = "except"]
      /\ UNCHANGED <<store, nextId, now, call, universities, ret, db, queries,
                     response, profiles, supabase, sync>>

\* db_session: "except Exception: session.rollback(); raise"
db_session_except(p) ==
  LET c == procs[p]
  IN  /\ c.pc = "except"
      /\ c.op = "db_session"
      /\ procs' = [procs EXCEPT ![p].session = Rollback(c.session),
                                ![p].pc = "finally"]
      /\ UNCHANGED <<store, nextId, now, call, universities, ret, db, queries,
                     response, profiles, supabase, sync>>

\* db_session / get_db: "finally: session.close()"
block_finally(p) ==
  LET c == procs[p]
  IN  /\ c.pc = "finally"
      /\ procs' = [procs EXCEPT ![p] =
                     [pc |-> "done", op |-> c.op, session |-> Close(c.session),
                      exc |-> c.exc,
                      ret |-> IF c.exc = "none" THEN Return(None) ELSE Raise(c.exc)]]
      /\ UNCHANGED <<store, nextId, now, call, universities, ret, db, queries,
                     response, profiles, supabase, sync>>

NextSession ==
  \/ \E p \in Callers, data \in SessionAdds : crud_get_session(p, data)
  \/ \E p \in Callers : crud_commit(p)
  \/ \E p \in Callers : crud_exit(p)
  \/ \E p \in Callers : crud_except(p)
  \/ \E p \in Callers, op \in {"db_session", "get_db"} : block_get_session(p, op)
  \/ \E p \in Callers, raises \in BOOLEAN : block_body(p, raises)
  \/ \E p \in Callers : db_session_commit(p)
  \/ \E p \in Callers : db_session_except(p)
  \/ \E p \in Callers : block_finally(p)
  \/ \E p \in Callers : conc_return(p)
  \/ Outage
  \/ Recover

SpecSession == Init /\ [][NextSession]_vars

(* --------------------------- authentication --------------------------- *)

\* SpecAuth issues the calls of AuthService and the requests to the protected
\* routes of api/v1/auth_route.py.  Supabase is an external service: it keeps
\* the accounts, refuses a second sign-up with a registered email, and
\* resolves the access token and the refresh token it issued for an account
\* to that account.  The service is taken to be configured (SUPABASE_URL and
\* SUPABASE_ANON_KEY set); the module db.orms.profiles that auth_service
\* imports is the file db/orms/profile.py.

\* The emails, roles and passwords that requests carry.
Emails == {"a@example.org", "b@example.org"}
Roles == {"student", "teacher", "admin"}

\* role = Column(Enum('student', 'parent', 'teacher', name='role_type'))
role_type == {"student", "parent", "teacher"}

\* The access token, and the refresh token, Supabase issued for account n;
\* no account has the number 0.
Token(n) == <<"token", n>>
AccountIds == 0..Cardinality(Emails)

\* HTTPException(status_code=...)
HTTPException(status_code) == Raise(status_code)

\* The account a token resolves to, as a set of at most one element.
AccountsOf(token) == {a \in supabase : Token(a.id) = token}

\* ProfileCRUD.create_profile commits: the database is reachable, the role
\* is a value of role_type, user_id and email are not taken.
CreateProfileAllowed(rows, profile_data) ==
  /\ db = "up"
  /\ profile_data.role \in role_type
  /\ \A i \in 1..Len(rows) :
       /\ rows[i].user_id # profile_data.user_id
       /\ rows[i].email # profile_data.email

\* The profiles table after sign_up's "try: ProfileCRUD.create_profile(...)
\* except Exception: logger.error(...)".
AfterCreateProfile(rows, profile_data) ==
  IF CreateProfileAllowed(rows, profile_data) THEN Append(rows, profile_data) ELSE rows

\* "local_profile = ProfileCRUD.get_profile_by_user_id(id); role =
\* local_profile.role if local_profile else 'student'", with "except
\* Exception: role = 'student'".
LocalRole(user_id) ==
  IF db = "up" /\ \E i \in 1..Len(profiles) : profiles[i].user_id = user_id
    THEN profiles[CHOOSE i \in 1..Len(profiles) : profiles[i].user_id = user_id].role
    ELSE "student"

\* The "user" dictionary that sign_in, refresh_token and get_current_user build.
UserOf(a) == [id |-> a.id, email |-> a.email, role |-> LocalRole(a.id)]

\* AuthService.sign_up
sign_up(email, role) ==
  LET id == Cardinality(supabase) + 1
      profile_data == [user_id |-> id, role |-> role, email |-> email]
  IN  /\ call = NoCall
      /\ call' = [op |-> "sign_up", email |-> email, role |-> role]
      /\ IF \E a \in supabase : a.email = email
           THEN /\ ret' = HTTPException(400)
                /\ UNCHANGED <<supabase, profiles>>
           ELSE /\ supabase' = supabase \cup {[id |-> id, email |-> email, role |-> role]}
                /\ profiles' = AfterCreateProfile(profiles, profile_data)
                /\ ret' = Return([user |-> [id |-> id, email |-> email, role |-> role],
                                  access_token |-> Token(id)])
      /\ queries' = <<>>
      /\ UNCHANGED <<store, nextId, now, universities, db, response, procs, sync>>

\* AuthService.sign_in
sign_in(email, password_matches) ==
  LET found == {a \in supabase : a.email = email /\ password_matches}
  IN  /\ call = NoCall
      /\ call' = [op |-> "sign_in", email |-> email]
      /\ ret' = IF found = {} THEN HTTPException(401)
                ELSE LET a == CHOOSE a \in found : TRUE
                     IN  Return([user |-> UserOf(a), access_token |-> Token(a.id)])
      /\ queries' = <<>>
      /\ UNCHANGED <<store, nextId, now, universities, db, response, procs,
                     profiles, supabase, sync>>

\* AuthService.refresh_token
refresh_token(token) ==
  LET found == AccountsOf(token)
  IN  /\ call = NoCall
      /\ call' = [op |-> "refresh_token", token |-> token]
      /\ ret' = IF found = {} THEN HTTPException(401)
                ELSE LET a == CHOOSE a \in found : TRUE
                     IN  Return([user |-> UserOf(a), access_token |-> Token(a.id)])
      /\ queries' = <<>>
      /\ UNCHANGED <<store, nextId, now, universities, db, response, procs,
                     profiles, supabase, sync>>

\* AuthService.get_current_user, awaited
AuthService_get_current_user(token) ==
  LET found == AccountsOf(token)
  IN  /\ call = NoCall
      /\ call' = [op |-> "get_current_user", token |-> token]
      /\ ret' = IF found = {} THEN HTTPException(401)
                ELSE Return([user |-> UserOf(CHOOSE a \in found : TRUE)])
      /\ queries' = <<>>
      /\ UNCHANGED <<store, nextId, now, universities, db, response, procs,
                     profiles, supabase, sync>>

\* What calling an "async def" method without await gives: a coroutine
\* object; the body of the method has not run and raises nothing.
Coroutine(method, argument) == [coroutine |-> method, argument |-> argument]

\* The dependency get_current_user of auth_route.py, a plain "def":
\* "try: return auth_service.get_current_user(token) except Exception: raise
\* HTTPException(401)".  The call is not awaited.
Depends_get_current_user(token) ==
  Return(Coroutine("AuthService.get_current_user", token))

\* What the body of a protected handler answers, given current_user.
\*   sign_out              returns its message;
\*   update_password       awaits auth_service.update_password("", ...), whose
\*   update_profile        set_session("", None) Supabase refuses: 400;
\*   get_current_user_info UserResponse(**current_user) needs a mapping.
HandlerBody(handler, current_user) ==
  CASE handler = "sign_out" -> Http(200, <<"Successfully signed out">>)
    [] handler \in {"update_password", "update_profile"} -> Http(400, None)
    [] handler = "get_current_user_info" ->
         IF "coroutine" \in DOMAIN current_user THEN Http(500, None)
         ELSE Http(200, current_user)

\* The routes of auth_route.py that declare Depends(get_current_user).
ProtectedHandlers ==
  {"sign_out", "update_password", "update_profile", "get_current_user_info"}

\* A request with "Authorization: Bearer <token>" to a protected route:
\* FastAPI resolves the dependency and, unless it raised, runs the handler.
\* "queries" lists the handler when its body ran.
route_protected(handler, token) ==
  LET current_user == Depends_get_current_user(token)
  IN  /\ call = NoCall
      /\ call' = [op |-> "route.auth", handler |-> handler, token |-> token]
      /\ ret' = current_user
      /\ IF current_user.outcome = "raise"
           THEN /\ response' = Http(current_user.error, None)
                /\ queries' = <<>>
           ELSE /\ response' = HandlerBody(handler, current_user.value)
                /\ queries' = <<handler>>
      /\ UNCHANGED <<store, nextId, now, universities, db, procs, profiles,
                     supabase, sync>>

NextAuth ==
  \/ \E email \in Emails, role \in Roles : sign_up(email, role)
  \/ \E email \in Emails, ok \in BOOLEAN : sign_in(email, ok)
  \/ \E n \in AccountIds : refresh_token(Token(n))
  \/ \E n \in AccountIds : AuthService_get_current_user(Token(n))
  \/ \E h \in ProtectedHandlers, n \in AccountIds : route_protected(h, Token(n))
  \/ Outage
  \/ Recover
  \/ Complete

SpecAuth == Init /\ [][NextAuth]_vars

(* ------------------------- the ingestion script ----------------------- *)

\* SpecSync runs sync_countries_orm over the lists the Hipo service returns
\* for two countries, item by item, while the database goes down and comes
\* back.  Of the dictionary normalize builds, the keys that are columns of
\* the model's table are kept.

\* str.strip(): without the blanks at both ends.
Strip(s) ==
  LET inked == {i \in 1..Len(s) : s[i] # " "}
  IN  IF inked = {} THEN <<>>
      ELSE SubSeq(s, CHOOSE i \in inked : \A j \in inked : i <= j,
                     CHOOSE i \in inked : \A j \in inked : j <= i)

\* str.upper() on one character of the country codes of the model.
UpperChar(c) ==
  CASE c = "a" -> "A"
    [] c = "s" -> "S"
    [] c = "u" -> "U"
    [] OTHER -> c

\* str.upper()
Upper(s) == [i \in 1..Len(s) |-> UpperChar(s[i])]

\* "x or ''" for an Optional[str]
OrEmpty(x) == IF x = None THEN <<>> ELSE x

\* "x or None" for a str
OrNone(x) == IF x = <<>> THEN None ELSE x

\* first_or_none(arr) or None, for a list (a missing key counts as empty)
first_or_none(arr) == IF Len(arr) > 0 THEN OrNone(arr[1]) ELSE None

\* normalize(item)
normalize(item) ==
  [name         |-> Strip(OrEmpty(item.name)),
   country_code |-> OrNone(Upper(Strip(OrEmpty(item.alpha_two_code)))),
   website      |-> first_or_none(item.web_pages),
   domain       |-> first_or_none(item.domains)]

\* A script that skips an item only for its name.
Skipped_NameOnly(data) == ~Truthy(data.name)

\* "if not data['name'] or not data['country_code']: continue"
Skipped(data) == ~Truthy(data.name) \/ ~Truthy(data.country_code)

\* The items of the Hipo service that occur in the model.
HipoItems ==
  { [name |-> <<" ">> \o n_beta \o <<" ">>, alpha_two_code |-> <<"u", "s">>,
     web_pages |-> <<>>, domains |-> <<d_beta>>],
    [name |-> <<" ", " ">>, alpha_two_code |-> cc_US,
     web_pages |-> <<w_beta>>, domains |-> <<>>],
    [name |-> n_Alpha, alpha_two_code |-> None,
     web_pages |-> <<>>, domains |-> <<>>] }

\* The lists fetch_country can return, and the answers to two countries.
ItemLists == UNION {[1..n -> HipoItems] : n \in 0..MaxItems}
Feeds == {<<a, b>> : a \in ItemLists, b \in ItemLists}

\* main: asyncio.run(sync_countries_orm(countries)), up to the first fetch.
\* "feed" holds what fetch_country will return for each country.
sync_countries_orm(feed) ==
  /\ sync = Idle
  /\ sync' = [pc |-> "running", feed |-> feed, country |-> 0, items |-> <<>>,
              fetched |-> 0, upserted |-> 0, processed |-> <<>>, log |-> <<>>,
              ret |-> Return(None)]
  /\ UNCHANGED <<store, nextId, now, call, universities, ret, db, queries,
                 response, procs, profiles, supabase>>

\* "items = await fetch_country(country); fetched += len(items)"; an HTTP
\* error of the Hipo service ends the run with that exception.
fetch_country(fails) ==
  /\ sync.pc = "running"
  /\ sync.items = <<>>
  /\ sync.country < Len(sync.feed)
  /\ sync' = IF fails
               THEN [sync EXCEPT !.pc = "done", !.ret = Raise("HTTPStatusError")]
               ELSE [sync EXCEPT !.country = @ + 1,
                                 !.items = sync.feed[sync.country + 1],
                                 !.fetched = @ + Len(sync.feed[sync.country + 1])]
  /\ UNCHANGED <<store, nextId, now, call, universities, ret, db, queries,
                 response, procs, profiles, supabase>>

\* One pass of "for item in items": normalize, skip or upsert, count.
sync_item ==
  LET item == Head(sync.items)
      data == normalize(item)
      next == [sync EXCEPT !.items = Tail(@), !.processed = Append(@, item)]
  IN  /\ sync.pc = "running"
      /\ sync.items # <<>>
      /\ IF Skipped(data)
           THEN /\ sync' = [next EXCEPT !.log = Append(@, "skipped")]
                /\ UNCHANGED <<store, nextId, now>>
           ELSE \E i \in ExistingIndices(store, data) :
                  /\ now < MaxClock
                  /\ i = 0 => Len(store) < MaxStore
                  /\ IF db = "up" /\ UpsertAllowed(store, data, i, now)
                       THEN /\ store' = Upserted(store, data, i, nextId, now)
                            /\ nextId' = IF i = 0 THEN nextId + 1 ELSE nextId
                            /\ now' = now + 1
                            /\ sync' = [next EXCEPT !.upserted = @ + 1,
                                                    !.log = Append(@, "upserted")]
                       ELSE /\ UNCHANGED <<store, nextId, now>>
                            /\ sync' = [next EXCEPT !.log = Append(@, "failed")]
      /\ UNCHANGED <<call, universities, ret, db, queries, response, procs,
                     profiles, supabase>>

\* "return {'countries': len(countries), 'fetched': fetched, 'upserted': upserted}"
sync_return ==
  /\ sync.pc = "running"
  /\ sync.items = <<>>
  /\ sync.country = Len(sync.feed)
  /\ sync' = [sync EXCEPT !.pc = "done",
                          !.ret = Return([countries |-> Len(sync.feed),
                                          fetched |-> sync.fetched,
                                          upserted |-> sync.upserted])]
  /\ UNCHANGED <<store, nextId, now, call, universities, ret, db, queries,
                 response, procs, profiles, supabase>>

NextSync ==
  \/ \E feed \in Feeds : sync_countries_orm(feed)
  \/ \E fails \in BOOLEAN : fetch_country(fails)
  \/ sync_item
  \/ sync_return
  \/ Outage
  \/ Recover

SpecSync == Init /\ [][NextSync]_vars

(* ====================================================================== *)
(* Properties of the listing pipeline                                     *)
(* ====================================================================== *)

IsList == call.op = "get_universities_with_pagination"
ListReturned == IsList /\ ret.outcome = "ok"
Filtered(q) == Truthy(q.search) \/ Truthy(q.country_code)
Ids(s) == {s[i].id : i \in 1..Len(s)}
Min(a, b) == IF a < b THEN a ELSE b
Max(a, b) == IF a < b THEN b ELSE a

\* Position of the row with this id in retrieval order.
Pos(id) == CHOOSE i \in 1..Len(store) : store[i].id = id

\* The stored row matches the query: its name contains the search term
\* case-insensitively (no term: every name) and its country is the filter's.
MatchesQuery(u, q) ==
  /\ Contains(Lower(u.name), IF Truthy(q.search) THEN Lower(q.search) ELSE <<>>)
  /\ q.country_code # None => u.country_code = q.country_code

MatchingIds(q) == {store[i].id : i \in {j \in 1..Len(store) : MatchesQuery(store[j], q)}}

\* C1: a listing call with a search term or a country_code completes, and its
\* candidates are exactly the stored records that match the term and the country.
C1_FilteredCandidates ==
  (IsList /\ Filtered(call.q)) =>
     /\ ret.outcome = "ok"
     /\ Ids(universities) = MatchingIds(call.q)

\* C2: for a query with a search term or a country filter, total is the number
\* of all stored records that match, whatever page and per_page are.
C2_TotalIsMatchCount ==
  (IsList /\ Filtered(call.q)) =>
     /\ ret.outcome = "ok"
     /\ ret.value.total = Cardinality(MatchingIds(call.q))

\* C3: no listing (paginated, by-country, suggestions) returns a record whose
\* name is null or empty, and no statistic counts one.
C3_NoEmptyNameListed ==
  /\ ListReturned =>
       \A i \in 1..Len(ret.value.items) : Truthy(ret.value.items[i].name)
  /\ (call.op \in {"get_universities_by_country", "get_search_suggestions"}
        /\ ret.outcome = "ok") =>
       \A i \in 1..Len(ret.value) : Truthy(ret.value[i].name)
  /\ (call.op = "get_statistics" /\ ret.outcome = "ok") =>
       ret.value.total_universities =
         Cardinality({i \in 1..Len(store) : Truthy(store[i].name)})

\* C4: the items of a returned page are the elements of the sorted candidate
\* list at positions (page-1)*per_page .. (page-1)*per_page + per_page - 1, in
\* that order; past the end the items are empty, and total and pages are those
\* of page 1.
C4_PageIsSlice ==
  ListReturned =>
    LET q     == call.q
        items == ret.value.items
        total == Len(universities)
        start == (q.page - 1) * q.per_page
        first == ListUniversities(store, [q EXCEPT !.page = 1])
    IN  /\ Len(items) = Max(0, Min(q.per_page, total - start))
        /\ \A i \in 1..Len(items) : items[i] = universities[start + i]
        /\ ret.value.total = total
        /\ ret.value.page = q.page /\ ret.value.per_page = q.per_page
        /\ start >= total =>
             /\ items = <<>>
             /\ first.outcome = "ok"
             /\ first.value.total = ret.value.total
             /\ first.value.pages = ret.value.pages

C4_Witness ==
  /\ ListReturned
  /\ call.q.page = 2 /\ call.q.per_page = 2
  /\ Len(universities) = 3
  /\ Len(ret.value.items) = 1

Paged == call.op = "apply_pagination"

\* C5: pages = (total + per_page - 1) // per_page, the least n with
\* n * per_page >= total, and 0 when total is 0, for every total and every
\* per_page in 1..100.
C5_PagesIsCeiling ==
  Paged =>
    LET total    == Len(universities)
        per_page == call.per_page
        pages    == ret.value.pages
    IN  /\ ret.value.total = total
        /\ pages \in 0..total
        /\ pages * per_page >= total
        /\ \A n \in 0..total : n * per_page >= total => pages <= n
        /\ total = 0 => pages = 0

C5_Witness ==
  /\ Paged
  /\ Len(universities) = 21 /\ call.per_page = 10 /\ ret.value.pages = 3

\* The pages a query with this per_page is asked for: those that hold
\* candidates and two beyond them.
AskedPages(total, per_page) == 1..((total + per_page - 1) \div per_page + 2)

\* pg[p] is the item list of page p; ConcatPages(pg, n) is pages 1..n in a row.
RECURSIVE ConcatPages(_, _)
ConcatPages(pg, n) == IF n = 0 THEN <<>> ELSE ConcatPages(pg, n - 1) \o pg[n]

\* C6: the pages 1..pages of one candidate list and per_page, concatenated,
\* are the list: full pages, then the remainder, nothing beyond, no record
\* twice, item counts summing to total, the same total and pages on every
\* request (25 candidates, per_page 10: 10, 10, 5, 0 items and pages = 3).
C6_PagesPartition ==
  Paged =>
    LET per_page == call.per_page
        total    == ret.value.total
        pages    == ret.value.pages
        res      == [p \in AskedPages(total, per_page) |->
                       Paginate(universities, p, per_page)]
        pg       == [p \in DOMAIN res |-> res[p].items]
    IN  /\ call.page \in DOMAIN res => ret.value = res[call.page]
        /\ call.page \notin DOMAIN res => ret.value.items = <<>>
        /\ call.page = 1 =>
             /\ ConcatPages(pg, pages) = universities
             /\ Len(ConcatPages(pg, pages + 2)) = total
             /\ \A p \in DOMAIN res :
                  /\ res[p].total = total /\ res[p].pages = pages
                  /\ p < pages => Len(pg[p]) = per_page
                  /\ p = pages => Len(pg[p]) = total - (pages - 1) * per_page
                  /\ p > pages => Len(pg[p]) = 0
             /\ \A p1, p2 \in DOMAIN res : p1 # p2 => Ids(pg[p1]) \cap Ids(pg[p2]) = {}
             /\ (total = 25 /\ per_page = 10) =>
                  /\ pages = 3
                  /\ <<Len(pg[1]), Len(pg[2]), Len(pg[3]), Len(pg[4])>> = <<10, 10, 5, 0>>

C6_Witness ==
  /\ Paged
  /\ Len(universities) = 25 /\ call.per_page = 10 /\ call.page = 3
  /\ ret.value.pages = 3
  /\ ret.value.items = SubSeq(universities, 21, 25)

\* C7: sort_by = name, sort_order = asc orders the candidates by lower-cased
\* name: an upper-case name does not precede a name that is alphabetically
\* smaller (Zeta, Alpha, beta comes back as Alpha, beta, Zeta).
C7_NameSortCaseInsensitive ==
  (ListReturned /\ call.q.sort_by = "name" /\ call.q.sort_order = "asc") =>
     /\ Ids(universities) = Ids(get_all_universities(store))
     /\ \A i, j \in 1..Len(universities) :
          i < j => ~StrLess(Lower(universities[j].name), Lower(universities[i].name))
     /\ \A i, j \in 1..Len(universities) :
          (universities[i].name = n_Zeta /\ universities[j].name \in {n_beta, n_alpha})
            => j < i

C7_Witness ==
  /\ ListReturned /\ call.q.sort_by = "name" /\ call.q.sort_order = "asc"
  /\ [i \in 1..Len(store) |-> store[i].name] = <<n_Zeta, n_Alpha, n_beta>>
  /\ [i \in 1..Len(universities) |-> universities[i].name] = <<n_Alpha, n_beta, n_Zeta>>

\* Two candidates have the same sort key under a recognized sort_by.
SameKey(sort_by, a, b) ==
  CASE sort_by = "name" -> Lower(a.name) = Lower(b.name)
    [] sort_by = "country_code" -> a.country_code = b.country_code
    [] OTHER -> FALSE

\* C8: under ascending sort, candidates with equal sort keys keep the order
\* in which the record store returned them.
C8_SortStable ==
  (ListReturned /\ call.q.sort_order = "asc") =>
     \A i, j \in 1..Len(universities) :
        (i < j /\ SameKey(call.q.sort_by, universities[i], universities[j]))
          => Pos(universities[i].id) < Pos(universities[j].id)

C8_Witness ==
  /\ ListReturned /\ call.q.sort_order = "asc" /\ call.q.sort_by = "name"
  /\ Len(universities) = 3
  /\ universities[1].name = n_alpha /\ universities[2].name = n_Alpha
  /\ universities[3].name = n_beta
  /\ Pos(universities[3].id) = 1

\* C9: sort_order = desc gives the exact reversal of the ascending list, so
\* equal keys come out in reverse retrieval order; every other sort_order
\* gives the ascending list.
C9_DescIsReversedAsc ==
  ListReturned =>
    LET asc == SortedCandidates(store, [call.q EXCEPT !.sort_order = "asc"])
        n   == Len(universities)
    IN  /\ asc.outcome = "ok"
        /\ Len(asc.value) = n
        /\ call.q.sort_order = "desc" =>
             /\ \A i \in 1..n : universities[i] = asc.value[n + 1 - i]
             /\ \A i, j \in 1..n :
                  (i < j /\ SameKey(call.q.sort_by, universities[i], universities[j]))
                    => Pos(universities[i].id) > Pos(universities[j].id)
        /\ call.q.sort_order # "desc" => universities = asc.value

C9_Witness ==
  /\ ListReturned /\ call.q.sort_order = "desc" /\ call.q.sort_by = "country_code"
  /\ [i \in 1..Len(store) |-> store[i].country_code] = <<cc_AU, cc_AU, cc_US>>
  /\ [i \in 1..Len(universities) |-> universities[i].id] =
       <<store[3].id, store[2].id, store[1].id>>

\* The created_at of the stored row a listed item stands for.
CreatedAt(item) == store[Pos(item.id)].created_at

\* C10: a listing call with sort_by = created_at completes and returns the
\* candidates in non-decreasing created_at order; stated here for the
\* unfiltered path (get_all_universities).
C10_CreatedAtSortCompletes ==
  (IsList /\ ~Filtered(call.q) /\ call.q.sort_by = "created_at"
     /\ call.q.sort_order = "asc") =>
     /\ ret.outcome = "ok"
     /\ \A i, j \in 1..Len(universities) :
          i < j => CreatedAt(universities[i]) <= CreatedAt(universities[j])

(* ====================================================================== *)
(* Properties of sorting fallbacks, statistics and suggestions            *)
(* ====================================================================== *)

\* The stored rows with a name, which get_all_universities selects.
NamedIds == {store[i].id : i \in {j \in 1..Len(store) : Truthy(store[j].name)}}

\* C11: when sort_by is not name, country_code or created_at the listing call
\* does not fail on that account and sorts nothing: the candidates are the
\* listed rows, and with sort_order = asc they come in retrieval order.
C11_UnknownSortKeepsOrder ==
  (IsList /\ call.q.sort_by \notin {"name", "country_code", "created_at"}) =>
     /\ ~Filtered(call.q) => ret.outcome = "ok"
     /\ ret.outcome = "ok" =>
          /\ Ids(universities) = NamedIds
          /\ Len(universities) = Cardinality(NamedIds)
          /\ call.q.sort_order = "asc" =>
               \A i, j \in 1..Len(universities) :
                  i < j => Pos(universities[i].id) < Pos(universities[j].id)

C11_Witness ==
  /\ ListReturned /\ call.q.sort_by = "id" /\ call.q.sort_order = "asc"
  /\ [i \in 1..Len(store) |-> store[i].name] = <<n_Zeta, n_beta, n_Alpha>>
  /\ [i \in 1..Len(universities) |-> universities[i].name] = <<n_Zeta, n_beta, n_Alpha>>

\* The indices of the stored rows that a statistic counts.
Listed == {i \in 1..Len(store) : Truthy(store[i].name)}

\* C12: get_statistics completes and returns the number of listed records,
\* the number of distinct country codes among them, the number with a
\* non-empty website and the number with a non-empty domain; all four are 0
\* on an empty table.
C12_StatisticsCounts ==
  call.op = "get_statistics" =>
     /\ ret.outcome = "ok"
     /\ ret.value.total_universities = Cardinality(Listed)
     /\ ret.value.total_countries = Cardinality({store[i].country_code : i \in Listed})
     /\ ret.value.with_website = Cardinality({i \in Listed : Truthy(store[i].website)})
     /\ ret.value.with_domain = Cardinality({i \in Listed : Truthy(store[i].domain)})
     /\ store = <<>> =>
          ret.value = [total_universities |-> 0, total_countries |-> 0,
                       with_website |-> 0, with_domain |-> 0]

\* C13: get_search_suggestions(query, limit, country_code) returns at most
\* limit entries, each the {id, name, country_code, domain} of a stored record
\* whose name contains query case-insensitively and whose country_code is the
\* filter's when one is given, in retrieval order.
C13_SuggestionsProjection ==
  call.op = "get_search_suggestions" =>
     /\ ret.outcome = "ok"
     /\ Len(ret.value) <= call.limit
     /\ \A i \in 1..Len(ret.value) :
          \E j \in 1..Len(store) :
             /\ ret.value[i] = [id |-> store[j].id, name |-> store[j].name,
                                country_code |-> store[j].country_code,
                                domain |-> store[j].domain]
             /\ Contains(Lower(store[j].name), Lower(call.query))
             /\ call.country_code # None => store[j].country_code = call.country_code
     /\ \A i, j \in 1..Len(ret.value) :
          i < j => Pos(ret.value[i].id) < Pos(ret.value[j].id)

(* ====================================================================== *)
(* Properties of the mutations                                            *)
(* ====================================================================== *)

\* The step is a call of one of these CRUD methods.
Calls(ops) == call = NoCall /\ call'.op \in ops

\* C14: an upsert whose domain is held by no stored record but whose name
\* (case-insensitively) and country_code are those of a stored record updates
\* that record and creates no second one.
C14_UpsertFallsBackToName ==
  [][ \A j \in 1..Len(store) :
        ( /\ Calls({"create_or_update_university"})
          /\ Truthy(call'.data.domain)
          /\ \A i \in 1..Len(store) : store[i].domain # call'.data.domain
          /\ Lower(store[j].name) = Lower(call'.data.name)
          /\ store[j].country_code = call'.data.country_code )
        => /\ ret'.outcome = "ok"
           /\ Len(store') = Len(store)
           /\ store'[j].id = store[j].id
           /\ store'[j].domain = call'.data.domain ]_vars

MutationOps ==
  {"add_university", "create_or_update_university", "update_university",
   "delete_university"}

\* C15: after any sequence of add, upsert, update and delete calls no two
\* stored records have the same non-null domain; an add or an update that
\* would give a record the domain of another one fails, and a failed call
\* leaves the table as it was.
C15_DomainUnique ==
  /\ [](\A i, j \in 1..Len(store) :
          (i # j /\ store[i].domain # None) => store[i].domain # store[j].domain)
  /\ [][ /\ (Calls(MutationOps) /\ ret'.outcome = "raise") => store' = store
         /\ ( /\ Calls({"add_university"})
              /\ call'.data.domain # None
              /\ \E i \in 1..Len(store) : store[i].domain = call'.data.domain )
            => ret'.outcome = "raise"
         /\ ( /\ Calls({"update_university"})
              /\ "domain" \in DOMAIN call'.data
              /\ \E i, j \in 1..Len(store) :
                   /\ store[i].id = call'.id
                   /\ j # i
                   /\ store[j].domain = call'.data.domain )
            => ret'.outcome = "raise" ]_vars

C15_Witness ==
  /\ call.op = "update_university"
  /\ call.data = [domain |-> d_beta]
  /\ ret.outcome = "raise"
  /\ Len(store) = 2
  /\ store[1].domain = d_beta /\ store[2].domain = None /\ store[2].id = call.id

\* C16: every successful update_university call, and every upsert that
\* updates an existing record, leaves created_at as it was and sets updated_at
\* to a value not earlier than the previous updated_at and not earlier than
\* created_at.
C16_UpdatedAtAdvances ==
  [][ ( /\ Calls({"update_university", "create_or_update_university"})
        /\ ret'.outcome = "ok"
        /\ Len(store') = Len(store) )
      => \A i \in 1..Len(store) :
            store'[i] # store[i] =>
              /\ store'[i].created_at = store[i].created_at
              /\ store'[i].updated_at >= store[i].updated_at
              /\ store'[i].updated_at >= store'[i].created_at ]_vars

(* ====================================================================== *)
(* Properties of the read operations and of the routes                    *)
(* ====================================================================== *)

ReadOps ==
  {"get_universities_with_pagination", "get_university_by_id",
   "get_search_suggestions", "get_countries", "get_statistics",
   "get_universities_by_country"}

\* C17: a call of a read operation of UniversityService leaves the table as
\* it was, rows, fields and retrieval order, whether it returns or raises, so
\* that the sorting done for one call is not seen by another.
C17_ReadsLeaveStore ==
  [][ Calls(ReadOps) => (store' = store /\ nextId' = nextId /\ now' = now) ]_vars

C17_Witness ==
  /\ ListReturned /\ call.q.sort_by = "name" /\ call.q.sort_order = "desc"
  /\ [i \in 1..Len(store) |-> store[i].name] = <<n_Alpha, n_Zeta, n_beta>>
  /\ [i \in 1..Len(universities) |-> universities[i].name] = <<n_Zeta, n_beta, n_Alpha>>

\* A request to the listing, suggestion, statistics or by-country handler
\* that reached the service.
ServedByStore ==
  /\ call.op \in {"route.get_universities", "route.get_search_suggestions",
                  "route.get_statistics", "route.get_universities_by_country"}
  /\ ret.outcome # "not_called"

\* C18: when the database fails the call made by a listing, suggestion,
\* statistics or by-country operation, the operation raises, having made that
\* one call and no other, and the route answers 500 without a page or a
\* partial result; the exception is the database's whenever the CRUD method
\* got to send its statement.
C18_StorageFailureIs500 ==
  (ServedByStore /\ db = "down") =>
     /\ ret.outcome = "raise"
     /\ Len(queries) = 1
     /\ queries[1] \in {"get_all_universities", "get_universities_by_country"}
          => ret.error = "OperationalError"
     /\ response.status = 500
     /\ response.body = None
     /\ universities = <<>>

C18_Witness ==
  /\ call.op = "route.get_universities"
  /\ db = "down"
  /\ Len(store) = 2
  /\ queries = <<"get_all_universities">>
  /\ ret = Raise("OperationalError")
  /\ response.status = 500

\* C19: a request for an id that no stored record has gets None from the
\* service, which does not raise, and 404 from the route, never 500; a request
\* for the id of a stored record gets that record.
C19_UnknownIdIs404 ==
  (call.op = "route.get_university" /\ db = "up") =>
     IF \E i \in 1..Len(store) : UuidText(store[i].id) = call.id
       THEN /\ ret.outcome = "ok"
            /\ response.status = 200
            /\ UuidText(response.body.id) = call.id
       ELSE /\ ret.outcome = "ok"
            /\ response.status = 404

\* C20: a list request with page < 1 or per_page outside 1..100, and a
\* suggestion request with an empty q or a limit outside 1..50, is answered
\* 422 without a call of UniversityService, so the service sees only
\* page >= 1 and 1 <= per_page <= 100; every other request reaches the
\* service with its sort_by and sort_order as sent.
C20_RouteValidates ==
  /\ call.op = "route.get_universities" =>
       LET bad == call.q.page < 1 \/ call.q.per_page < 1 \/ call.q.per_page > 100
       IN  /\ bad => (response.status = 422 /\ ret.outcome = "not_called" /\ queries = <<>>)
           /\ ~bad => (response.status # 422 /\ ret.outcome # "not_called")
           /\ (ret.outcome = "ok") =>
                (ret.value.page = call.q.page /\ ret.value.per_page = call.q.per_page)
  /\ call.op = "route.get_search_suggestions" =>
       LET bad == Len(call.query) = 0 \/ call.limit < 1 \/ call.limit > 50
       IN  /\ bad => (response.status = 422 /\ ret.outcome = "not_called" /\ queries = <<>>)
           /\ ~bad => (response.status # 422 /\ ret.outcome # "not_called")

C20_Witness ==
  /\ call.op = "route.get_universities"
  /\ call.q.page = 1 /\ call.q.per_page = 101
  /\ call.q.sort_by = "id" /\ call.q.sort_order = "down"
  /\ response.status = 422
  /\ ret.outcome = "not_called"

(* ====================================================================== *)
(* Properties of the dispatch                                             *)
(* ====================================================================== *)

\* C21: GET /universities/countries is dispatched to the handler
\* get_countries and GET /universities/statistics to the handler
\* get_statistics; neither is taken by the route /{university_id} that is
\* declared before them.
C21_LiteralRoutesReached ==
  call.op = "GET" =>
     /\ call.path = <<(<<"countries">>)>>  => call.handler = "get_countries"
     /\ call.path = <<(<<"statistics">>)>> => call.handler = "get_statistics"

\* C22: every record get_universities_by_country(code, search) returns has
\* country_code = code; with a non-empty search every returned name contains
\* search case-insensitively, and every stored record that satisfies both
\* conditions is returned.
C22_ByCountryFilter ==
  call.op = "get_universities_by_country" =>
     /\ ret.outcome = "ok"
     /\ \A i \in 1..Len(ret.value) :
          /\ ret.value[i].country_code = call.country_code
          /\ Truthy(call.search) =>
               Contains(Lower(ret.value[i].name), Lower(call.search))
     /\ \A j \in 1..Len(store) :
          ( /\ store[j].country_code = call.country_code
            /\ Truthy(call.search) =>
                 Contains(Lower(store[j].name), Lower(call.search)) )
          => \E i \in 1..Len(ret.value) : ret.value[i].id = store[j].id

\* The identity and the non-timestamp fields of the rows of a table.
NonTimestamp(rows) ==
  [i \in 1..Len(rows) |->
     [id |-> rows[i].id, name |-> rows[i].name,
      country_code |-> rows[i].country_code, website |-> rows[i].website,
      domain |-> rows[i].domain]]

\* C28: applying create_or_update_university to the same university_data a
\* second time, right after the first application has returned, leaves as
\* many records, with the same ids and the same non-timestamp field values,
\* as the first application left.
C28_UpsertIdempotent ==
  (call.op = "create_or_update_university" /\ ret.outcome = "ok") =>
     \A i \in ExistingIndices(store, call.data) :
        /\ UpsertAllowed(store, call.data, i, now)
        /\ NonTimestamp(Upserted(store, call.data, i, nextId, now)) = NonTimestamp(store)

(* ====================================================================== *)
(* Properties of concurrent calls                                         *)
(* ====================================================================== *)

\* Caller p's call of op has returned or raised.
Finished(p, op) == procs[p].pc = "done" /\ procs[p].op = op

\* C24: the values one get_statistics call returns describe a single state
\* of the table, also while upserts run: the call returns its four counts,
\* and total_countries, with_website and with_domain are each at most
\* total_universities.
C24_StatisticsOneSnapshot ==
  \A p \in Callers :
     Finished(p, "get_statistics") =>
        /\ procs[p].ret.outcome = "ok"
        /\ procs[p].ret.value.total_countries <= procs[p].ret.value.total_universities
        /\ procs[p].ret.value.with_website <= procs[p].ret.value.total_universities
        /\ procs[p].ret.value.with_domain <= procs[p].ret.value.total_universities

C27_OneRecordPerName ==
  \A p \in Callers :
     ( /\ Finished(p, "create_or_update_university")
       /\ ~Truthy(procs[p].args.domain) )
     => Cardinality(RowsOfNameAndCountry(store, procs[p].args.name,
                                         procs[p].args.country_code)) <= 1

\* The callers whose session is open.
Held == {p \in Callers : procs[p].pc # "idle" /\ procs[p].session.state = "open"}

\* C23: the session of a CRUD call, of db_session and of get_db is released
\* when the call has returned or raised, so no session is held once all
\* calls have; no session is released with its transaction in progress, and
\* the transaction of a call that raised is rolled back.
C23_SessionsReleased ==
  /\ \A p \in Callers : procs[p].pc = "done" => p \notin Held
  /\ (\A p \in Callers : procs[p].pc \in {"idle", "done"}) => Held = {}
  /\ \A p \in Callers :
       (procs[p].pc # "idle" /\ procs[p].session.state = "closed") =>
          /\ procs[p].session.tx # "active"
          /\ procs[p].exc # "none" => procs[p].session.tx = "rolled_back"

C23_Witness ==
  /\ procs[1].pc = "done" /\ procs[1].op = "add_university"
  /\ procs[1].ret = Raise("IntegrityError")
  /\ procs[1].session = [state |-> "closed", tx |-> "rolled_back"]
  /\ procs[2].pc = "done" /\ procs[2].op = "add_university"
  /\ procs[2].ret.outcome = "ok"
  /\ procs[2].session = [state |-> "closed", tx |-> "committed"]
  /\ Len(store) = 1

(* ====================================================================== *)
(* Properties of authentication                                           *)
(* ====================================================================== *)

\* C26: after a sign_up that returned for a user with role r the profiles
\* table holds a profile of that user id with role r, and a sign_in,
\* refresh_token or get_current_user for a user reports the role that user
\* signed up with.
C26_ProfileMirrorsRole ==
  /\ (call.op = "sign_up" /\ ret.outcome = "ok") =>
        \E i \in 1..Len(profiles) :
           /\ profiles[i].user_id = ret.value.user.id
           /\ profiles[i].role = call.role
  /\ (call.op \in {"sign_in", "refresh_token", "get_current_user"} /\ ret.outcome = "ok") =>
        \A a \in supabase :
           a.id = ret.value.user.id => ret.value.user.role = a.role

\* C29: a request to a protected auth route whose bearer token resolves to no
\* user is answered 401 and the handler body does not run; the handler body
\* runs only for a token that resolves to a user.
C29_ProtectedNeedsUser ==
  call.op = "route.auth" =>
     /\ AccountsOf(call.token) = {} => (response.status = 401 /\ queries = <<>>)
     /\ queries # <<>> => AccountsOf(call.token) # {}

(* ====================================================================== *)
(* Properties of the ingestion script                                     *)
(* ====================================================================== *)

\* The number of entries of a log that equal v.
CountOf(log, v) == Cardinality({k \in 1..Len(log) : log[k] = v})

\* The number of items in the lists of a feed.
ItemsIn(feed) == IF Len(feed) = 0 THEN 0 ELSE Len(feed[1]) + Len(feed[2])

\* C30: sync_countries_orm calls create_or_update_university for an item
\* exactly when its normalized name and country_code are both non-empty; a
\* failed upsert does not keep the remaining items and countries from being
\* processed; the reported upserted is the number of upsert calls that
\* returned, and is at most fetched.
C30_SyncCounts ==
  sync.pc # "idle" =>
     /\ Len(sync.log) = Len(sync.processed)
     /\ \A k \in 1..Len(sync.log) :
          sync.log[k] \in {"upserted", "failed"} <=>
             ( /\ Truthy(normalize(sync.processed[k]).name)
               /\ Truthy(normalize(sync.processed[k]).country_code) )
     /\ sync.upserted = CountOf(sync.log, "upserted")
     /\ sync.upserted <= sync.fetched
     /\ (sync.pc = "done" /\ sync.ret.outcome = "ok") =>
          /\ sync.processed = sync.feed[1] \o sync.feed[2]
          /\ sync.ret.value.fetched = ItemsIn(sync.feed)
          /\ sync.ret.value.upserted = CountOf(sync.log, "upserted")
          /\ sync.ret.value.upserted <= sync.ret.value.fetched

C30_Witness ==
  /\ sync.pc = "done"
  /\ sync.ret.outcome = "ok"
  /\ sync.log = <<"failed", "skipped", "skipped", "upserted">>
  /\ sync.ret.value = [countries |-> 2, fetched |-> 4, upserted |-> 1]
  /\ Len(store) = 1
====
